---- MODULE Spec2Model ----
(***************************************************************************)
(* A model of jg-garmin-to-sheets: the date-keyed reconciliation of        *)
(* GoogleSheetsClient.update_metrics (src/src/sheets_client.py) against a  *)
(* remote sheet tab, and the orchestration of cli_sync / sync              *)
(* (src/src/main.py) that feeds it.                                        *)
(*                                                                         *)
(* The remote sheet tab is a sequence of rows.  A row keeps column A (the  *)
(* date key, a string, "" when the cell is empty) and one cell v standing  *)
(* for columns B..X, which update_metrics treats uniformly (one loop over  *)
(* HEADERS).  The sheet stores what was written, literally.                *)
(***************************************************************************)
EXTENDS Integers, Sequences, FiniteSets, TLC

\* ------------------------------------------------------------------ bounds
MaxRecords == 2   \* longest record list handed to update_metrics
MaxInitRows == 2  \* most rows of the sheet before the first invocation
MaxRows == 3      \* no invocation is started that could grow the sheet past this
MaxCsvRows == 4   \* no further process is started once the CSV file has this many rows

\* ------------------------------------------------------------------ data
\* The calendar days of the model, and date.isoformat() of each.
Dates == {1, 2}
IsoTable == <<"2024-01-01", "2024-01-02">>
isoformat(d) == IsoTable[d]
DateStrs == {isoformat(d) : d \in Dates}

\* Field values of a GarminMetrics: None, a float (n in thousandths), a str
\* (an int passes through update_metrics the way a str does).  The records of
\* the model carry the two values update_metrics rewrites: None and a float.
None == [t |-> "none", n |-> 0, s |-> ""]
Float(n) == [t |-> "float", n |-> n, s |-> ""]
Str(s) == [t |-> "str", n |-> 0, s |-> s]
FieldValues == {None, Float(72456)}

\* GarminMetrics: the date key and one optional field.
GarminMetrics == [date : Dates, sleep_score : FieldValues]

\* HEADERS: "Day/Date" in column A, the other headers in the remaining columns.
HEADERS == [a |-> "Day/Date", v |-> Str("Sleep Score")]

\* round(value, 2) of a float given in thousandths (ties to even).
Round2(n) ==
    LET q == n \div 10
        r == n % 10
    IN  IF r < 5 THEN q * 10
        ELSE IF r > 5 THEN (q + 1) * 10
        ELSE IF q % 2 = 0 THEN q * 10 ELSE (q + 1) * 10

\* One cell of row_data: None becomes "", a float is rounded, the rest passes.
SerializeValue(value) ==
    IF value.t = "none" THEN Str("")
    ELSE IF value.t = "float" THEN Float(Round2(value.n))
    ELSE value

\* metric_date_str: GarminMetrics declares date as a datetime.date, so the
\* isoformat() branch is the one taken.
MetricDateStr(metric) == isoformat(metric.date)

\* strftime(SHEET_DATE_FORMAT) of each day: the long display form of the key.
DisplayTable == <<"Monday January 1,2024", "Tuesday January 2,2024">>

\* RowData with the key written in the display form while it is matched in ISO form.
RowData_DisplayDate(metric) ==
    [a |-> DisplayTable[metric.date], v |-> SerializeValue(metric.sleep_score)]

\* row_data of one record, in header order.
RowData(metric) == [a |-> MetricDateStr(metric), v |-> SerializeValue(metric.sleep_score)]

\* ------------------------------------------------------------------ helpers
Max(S) == CHOOSE x \in S : \A y \in S : y <= x
Min(S) == CHOOSE x \in S : \A y \in S : x <= y

RECURSIVE SeqsUpTo(_, _)
SeqsUpTo(S, n) ==
    IF n = 0 THEN {<<>>}
    ELSE LET shorter == SeqsUpTo(S, n - 1)
         IN  shorter \cup {Append(q, x) : q \in {p \in shorter : Len(p) = n - 1}, x \in S}

RowsOf(sh, str) == {i \in 1..Len(sh) : sh[i].a = str}

\* ------------------------------------------------------------------ remote calls
\* A remote call may fail.  update_metrics tells an HttpError from any other
\* exception only around the read of column A, so only there are both drawn.
NoFailure == [at |-> "", kind |-> ""]
CallNames == {"spreadsheets.get", "addSheet", "values.get A1", "values.update A1",
              "values.get A:A", "values.batchUpdate", "values.append"}
Failures ==
    {NoFailure} \cup {[at |-> c, kind |-> "HttpError"] : c \in CallNames}
                \cup {[at |-> "values.get A:A", kind |-> "Other"]}

\* One issued call: its name and, for the two row writes, the rows it carries
\* (row is the 1-based target row of an update, 0 for an appended row).
Call(op, data) == [op |-> op, data |-> data]

\* What one invocation leaves behind: the tab, its rows, the calls issued in
\* order (the failing one included), how it ended, and the call that failed.
Result(tab, sh, calls, outcome, failed) ==
    [tab |-> tab, sheet |-> sh, calls |-> calls, outcome |-> outcome, failed |-> failed]

\* _get_spreadsheet_details: one metadata read; an error is logged and re-raised.
GetSpreadsheetDetails(tab, sh, fail) ==
    IF fail.at = "spreadsheets.get"
    THEN Result(tab, sh, <<Call("spreadsheets.get", <<>>)>>, "raised", fail.at)
    ELSE Result(tab, sh, <<Call("spreadsheets.get", <<>>)>>, "ok", "")

\* values().update at A1 with body [HEADERS]: row 1 is (over)written.
WriteHeaderRow(sh) == IF Len(sh) = 0 THEN <<HEADERS>> ELSE [sh EXCEPT ![1] = HEADERS]

\* 'values' not in result, for the range A1.
A1IsEmpty(sh) == Len(sh) = 0 \/ sh[1].a = ""

\* _setup_sheet: create the tab when absent, then write the headers when A1 is empty.
SetupSheet(tab, sh, fail) ==
    LET create == IF tab THEN <<>> ELSE <<Call("addSheet", <<>>)>>
        check == create \o <<Call("values.get A1", <<>>)>>
        write == check \o <<Call("values.update A1", <<>>)>>
    IN  IF ~tab /\ fail.at = "addSheet" THEN Result(tab, sh, create, "raised", fail.at)
        ELSE IF fail.at = "values.get A1" THEN Result(TRUE, sh, check, "raised", fail.at)
        ELSE IF ~A1IsEmpty(sh) THEN Result(TRUE, sh, check, "ok", "")
        ELSE IF fail.at = "values.update A1" THEN Result(TRUE, sh, write, "raised", fail.at)
        ELSE Result(TRUE, WriteHeaderRow(sh), write, "ok", "")

\* DateToRowMap keeping the first entry of a key instead of the last.
DateToRowMap_First(sh) ==
    [str \in {sh[i].a : i \in 1..Len(sh)} \ {""} |-> Min(RowsOf(sh, str))]

\* DateToRowMap taking row 1 for the header and indexing only the rows below it.
DateToRowMap_SkipRow1(sh) ==
    [str \in {sh[i].a : i \in 2..Len(sh)} \ {""} |-> Max(RowsOf(sh, str) \ {1})]

\* date_to_row_map: {row[0]: i + 1 for i, row in enumerate(existing_dates_list) if row}.
\* A later row with the same key replaces the earlier entry of the dict.
DateToRowMap(sh) ==
    [str \in {sh[i].a : i \in 1..Len(sh)} \ {""} |-> Max(RowsOf(sh, str))]

\* The loop over metrics: the records found in the map, as targeted updates.
Updates(ms, map) ==
    LET found == SelectSeq(ms, LAMBDA m : MetricDateStr(m) \in DOMAIN map)
    IN  [i \in 1..Len(found) |->
            [row |-> map[MetricDateStr(found[i])], values |-> RowData(found[i])]]

\* Appends without the else: every record becomes a new row, matched or not.
Appends_All(ms, map) == [i \in 1..Len(ms) |-> [row |-> 0, values |-> RowData(ms[i])]]

\* Appends inserting each new row at the front of the batch.
Appends_Reversed(ms, map) ==
    LET new == SelectSeq(ms, LAMBDA m : MetricDateStr(m) \notin DOMAIN map)
    IN  [i \in 1..Len(new) |-> [row |-> 0, values |-> RowData(new[Len(new) + 1 - i])]]

\* The loop over metrics: the records not found in the map, as new rows.
Appends(ms, map) ==
    LET new == SelectSeq(ms, LAMBDA m : MetricDateStr(m) \notin DOMAIN map)
    IN  [i \in 1..Len(new) |-> [row |-> 0, values |-> RowData(new[i])]]

\* values().batchUpdate: every range of the batch is written, in order.
RECURSIVE ApplyUpdates(_, _)
ApplyUpdates(sh, ups) ==
    IF Len(ups) = 0 THEN sh
    ELSE ApplyUpdates([sh EXCEPT ![ups[1].row] = ups[1].values], Tail(ups))

\* values().append with INSERT_ROWS: the rows go below the table, in order.
ApplyAppends(sh, apps) == sh \o [i \in 1..Len(apps) |-> apps[i].values]

\* Commit with the update call's exception caught, so the append still goes out.
Commit_Independent(sh, calls, ups, apps, fail) ==
    LET upCall == IF Len(ups) > 0 THEN <<Call("values.batchUpdate", ups)>> ELSE <<>>
        apCall == IF Len(apps) > 0 THEN <<Call("values.append", apps)>> ELSE <<>>
        upFails == Len(ups) > 0 /\ fail.at = "values.batchUpdate"
        updated == IF Len(ups) > 0 /\ ~upFails THEN ApplyUpdates(sh, ups) ELSE sh
    IN  IF Len(apps) > 0 /\ fail.at = "values.append"
        THEN Result(TRUE, updated, calls \o upCall \o apCall, "raised", fail.at)
        ELSE Result(TRUE, ApplyAppends(updated, apps), calls \o upCall \o apCall,
                    IF upFails THEN "raised" ELSE "returned",
                    IF upFails THEN fail.at ELSE "")

\* Commit with a failed append call issued once more, the second try going through.
Commit_RetryAppend(sh, calls, ups, apps, fail) ==
    LET upCall == IF Len(ups) > 0 THEN <<Call("values.batchUpdate", ups)>> ELSE <<>>
        apCall == IF Len(apps) > 0 THEN <<Call("values.append", apps)>> ELSE <<>>
        updated == IF Len(ups) > 0 THEN ApplyUpdates(sh, ups) ELSE sh
    IN  IF Len(ups) > 0 /\ fail.at = "values.batchUpdate"
        THEN Result(TRUE, sh, calls \o upCall, "raised", fail.at)
        ELSE IF Len(apps) > 0 /\ fail.at = "values.append"
        THEN Result(TRUE, ApplyAppends(updated, apps), calls \o upCall \o apCall \o apCall,
                    "returned", fail.at)
        ELSE Result(TRUE, ApplyAppends(updated, apps), calls \o upCall \o apCall,
                    "returned", "")

\* Commit without the two "if" guards: both calls go out, even with empty batches.
Commit_Unconditional(sh, calls, ups, apps, fail) ==
    LET upCall == <<Call("values.batchUpdate", ups)>>
        apCall == <<Call("values.append", apps)>>
        updated == ApplyUpdates(sh, ups)
    IN  IF fail.at = "values.batchUpdate"
        THEN Result(TRUE, sh, calls \o upCall, "raised", fail.at)
        ELSE IF fail.at = "values.append"
        THEN Result(TRUE, updated, calls \o upCall \o apCall, "raised", fail.at)
        ELSE Result(TRUE, ApplyAppends(updated, apps), calls \o upCall \o apCall,
                    "returned", "")

\* The commit of update_metrics: the update batch, then the append batch; an
\* exception of the first call leaves the method before the second is built.
Commit(sh, calls, ups, apps, fail) ==
    LET upCall == IF Len(ups) > 0 THEN <<Call("values.batchUpdate", ups)>> ELSE <<>>
        apCall == IF Len(apps) > 0 THEN <<Call("values.append", apps)>> ELSE <<>>
        updated == IF Len(ups) > 0 THEN ApplyUpdates(sh, ups) ELSE sh
    IN  IF Len(ups) > 0 /\ fail.at = "values.batchUpdate"
        THEN Result(TRUE, sh, calls \o upCall, "raised", fail.at)
        ELSE IF Len(apps) > 0 /\ fail.at = "values.append"
        THEN Result(TRUE, updated, calls \o upCall \o apCall, "raised", fail.at)
        ELSE Result(TRUE, ApplyAppends(updated, apps), calls \o upCall \o apCall,
                    "returned", "")

\* update_metrics, start to end.
UpdateMetricsRun(tab, sh, ms, fail) ==
    LET details == GetSpreadsheetDetails(tab, sh, fail)
        setup == SetupSheet(tab, sh, fail)
        read == details.calls \o setup.calls \o <<Call("values.get A:A", <<>>)>>
        map == DateToRowMap(setup.sheet)
    IN  IF details.outcome = "raised" THEN details
        ELSE IF setup.outcome = "raised"
        THEN Result(setup.tab, setup.sheet, details.calls \o setup.calls, "raised",
                    setup.failed)
        ELSE IF fail.at = "values.get A:A"
        THEN Result(setup.tab, setup.sheet, read,
                    IF fail.kind = "HttpError" THEN "returned" ELSE "raised", fail.at)
        ELSE Commit(setup.sheet, read, Updates(ms, map), Appends(ms, map), fail)

\* ------------------------------------------------------------------ state
VARIABLES
    tabExists,   \* the spreadsheet has a tab named sheet_name
    sheet,       \* the rows of that tab
    beforeTab,   \* tabExists when the last invocation of update_metrics began
    before,      \* sheet when the last invocation of update_metrics began
    metrics,     \* the record list of the last invocation
    calls,       \* the remote calls the last invocation issued, in order
    outcome,     \* "none" for a client not yet used, then "returned" or "raised"
    failed,      \* the call that failed in the last invocation, "" when none did
    clean,       \* no duplicate date at the start, and none in any record list
    run,         \* SpecTwice: how many of the two invocations have run
    once,        \* SpecTwice: the sheet after the first invocation
    pc,          \* SpecSync: where the process is: "start", "auth", "fetch", "exited"
    args,        \* SpecSync: start_date, end_date, output_type as sync received them
    authLog,     \* SpecSync: the authentication steps attempted, in order
    cur,         \* SpecSync: current_date of the fetch loop
    fetched,     \* SpecSync: metrics_to_write
    sinks,       \* SpecSync: the sinks sync handed a list to, each with that list
    csvFile,     \* SpecSync: the rows of the CSV file
    exitCode,    \* SpecSync: the process's exit code, -1 while it runs
    reported,    \* SpecSync: the sink whose "sync completed successfully!" was logged
    ended        \* SpecSync: why the process ended

sheetVars == <<tabExists, sheet, beforeTab, before, metrics, calls, outcome, failed, clean>>
twiceVars == <<run, once>>
syncVars == <<pc, args, authLog, cur, fetched, sinks, csvFile, exitCode, reported, ended>>
vars == <<sheetVars, twiceVars, syncVars>>

\* Rows a user's sheet may hold before the program first runs.
NoteRow == [a |-> "", v |-> Str("note")]
InitRows == {HEADERS, NoteRow} \cup {RowData(m) : m \in GarminMetrics}
InitSheets == SeqsUpTo(InitRows, MaxInitRows)
RecordLists == SeqsUpTo(GarminMetrics, MaxRecords)

\* sync's parameters before cli_sync has parsed any.
NoArgs == [start_date |-> 0, end_date |-> 0, output_type |-> ""]

DistinctDates(ms) == \A i, j \in 1..Len(ms) : i # j => ms[i].date # ms[j].date
AtMostOneRowPerDate(sh) == \A str \in DateStrs : Cardinality(RowsOf(sh, str)) <= 1

Init ==
    /\ tabExists \in BOOLEAN
    /\ sheet \in (IF tabExists THEN InitSheets ELSE {<<>>})
    /\ beforeTab = tabExists
    /\ before = sheet
    /\ metrics = <<>>
    /\ calls = <<>>
    /\ outcome = "none"
    /\ failed = ""
    /\ clean = AtMostOneRowPerDate(sheet)
    /\ run = 0
    /\ once = <<>>
    /\ pc = "start"
    /\ args = NoArgs
    /\ authLog = <<>>
    /\ cur = 0
    /\ fetched = <<>>
    /\ sinks = <<>>
    /\ csvFile = <<>>
    /\ exitCode = -1
    /\ reported = ""
    /\ ended = ""

\* One invocation of update_metrics(ms) on the remote sheet, with its trace.
UpdateMetrics(ms, fail) ==
    \E r \in {UpdateMetricsRun(tabExists, sheet, ms, fail)} :
        /\ tabExists' = r.tab
        /\ sheet' = r.sheet
        /\ beforeTab' = tabExists
        /\ before' = sheet
        /\ metrics' = ms
        /\ calls' = r.calls
        /\ outcome' = r.outcome
        /\ failed' = r.failed
        /\ clean' = (clean /\ DistinctDates(ms))

\* A caller hands a record list to a fresh client; any call may fail.
Invoke ==
    /\ outcome = "none"
    /\ \E ms \in RecordLists, fail \in Failures :
        /\ UpdateMetrics(ms, fail)
        /\ Len(sheet') <= MaxRows
    /\ UNCHANGED <<twiceVars, syncVars>>

\* GoogleSheetsClient(...): every sync builds a new client, which keeps nothing
\* of an earlier invocation.
NewClient ==
    /\ outcome # "none"
    /\ beforeTab' = tabExists
    /\ before' = sheet
    /\ metrics' = <<>>
    /\ calls' = <<>>
    /\ outcome' = "none"
    /\ failed' = ""
    /\ UNCHANGED <<tabExists, sheet, clean, twiceVars, syncVars>>

Next == Invoke \/ NewClient

Spec == Init /\ [][Next]_vars

\* ------------------------------------------------------------------ twice
\* update_metrics run twice in succession with one record list, no call failing.
First ==
    /\ run = 0
    /\ \E ms \in RecordLists : UpdateMetrics(ms, NoFailure)
    /\ run' = 1
    /\ once' = sheet'
    /\ UNCHANGED syncVars

Second ==
    /\ run = 1
    /\ UpdateMetrics(metrics, NoFailure)
    /\ run' = 2
    /\ UNCHANGED <<once, syncVars>>

NextTwice == First \/ Second

SpecTwice == Init /\ [][NextTwice]_vars

\* ------------------------------------------------------------------ sync
\* What --start-date and --end-date may carry, and datetime.strptime(s,
\* "%Y-%m-%d").date() of it: 0 stands for the ValueError.
DateArgs == DateStrs \cup {"01/02/2024"}
strptime(str) == IF str \in DateStrs THEN CHOOSE d \in Dates : isoformat(d) = str ELSE 0

\* --output-type is any string; sync knows two of them.
OutputTypes == {"sheets", "csv", "xml"}

\* The process ends: sys.exit(code), a return to the shell (0), or a traceback (1).
Exit(code, why) ==
    /\ pc' = "exited"
    /\ exitCode' = code
    /\ ended' = why

\* cli_sync: the profile, its credentials and the two dates are checked, in
\* this order, before sync is entered.
CliSync ==
    /\ pc = "start"
    /\ \E profileFound \in BOOLEAN, haveLogin \in BOOLEAN, start_date \in DateArgs,
          end_date \in DateArgs, output_type \in OutputTypes :
        IF ~profileFound THEN Exit(1, "profile") /\ UNCHANGED args
        ELSE IF ~haveLogin THEN Exit(1, "credentials") /\ UNCHANGED args
        ELSE IF strptime(start_date) = 0 \/ strptime(end_date) = 0
        THEN Exit(1, "date format") /\ UNCHANGED args
        ELSE /\ pc' = "auth"
             /\ args' = [start_date |-> strptime(start_date),
                         end_date |-> strptime(end_date), output_type |-> output_type]
             /\ UNCHANGED <<exitCode, ended>>
    /\ UNCHANGED <<sheetVars, twiceVars, authLog, cur, fetched, sinks, csvFile, reported>>

\* One authentication step and how it went.
AuthStep(step, result) == [step |-> step, result |-> result]

\* AuthRun trying the password login once more after a failed MFA code.
AuthRun_Relogin(resumeOk, login, isatty, mfaOk) ==
    IF resumeOk THEN [log |-> <<AuthStep("resume", "ok")>>, ok |-> TRUE]
    ELSE IF login = "ok"
    THEN [log |-> <<AuthStep("resume", "failed"), AuthStep("login", "ok")>>, ok |-> TRUE]
    ELSE IF login = "mfa" /\ isatty
    THEN [log |-> <<AuthStep("resume", "failed"), AuthStep("login", "mfa required"),
                    AuthStep("mfa", IF mfaOk THEN "ok" ELSE "failed")>>
                  \o (IF mfaOk THEN <<>> ELSE <<AuthStep("login", "ok")>>),
          ok |-> TRUE]
    ELSE [log |-> <<AuthStep("resume", "failed"),
                    AuthStep("login", IF login = "mfa" THEN "mfa required" ELSE "error")>>,
          ok |-> FALSE]

\* The authentication of sync: the saved session (garth.resume and what follows
\* it in the try); when that raises, the password login; when the login's
\* exception speaks of MFA or verification and stdin is a terminal, one prompted
\* code.  login is "ok", "mfa" (such an exception) or "error" (any other).
\* Every other way out is sys.exit(1).
AuthRun(resumeOk, login, isatty, mfaOk) ==
    IF resumeOk THEN [log |-> <<AuthStep("resume", "ok")>>, ok |-> TRUE]
    ELSE IF login = "ok"
    THEN [log |-> <<AuthStep("resume", "failed"), AuthStep("login", "ok")>>, ok |-> TRUE]
    ELSE IF login = "mfa" /\ isatty
    THEN [log |-> <<AuthStep("resume", "failed"), AuthStep("login", "mfa required"),
                    AuthStep("mfa", IF mfaOk THEN "ok" ELSE "failed")>>,
          ok |-> mfaOk]
    ELSE [log |-> <<AuthStep("resume", "failed"),
                    AuthStep("login", IF login = "mfa" THEN "mfa required" ELSE "error")>>,
          ok |-> FALSE]

Authenticate ==
    /\ pc = "auth"
    /\ \E resumeOk \in BOOLEAN, login \in {"ok", "mfa", "error"}, isatty \in BOOLEAN,
          mfaOk \in BOOLEAN :
        \E r \in {AuthRun(resumeOk, login, isatty, mfaOk)} :
            /\ authLog' = r.log
            /\ IF r.ok
               THEN /\ pc' = "fetch"
                    /\ cur' = args.start_date
                    /\ UNCHANGED <<exitCode, ended>>
               ELSE Exit(1, "auth") /\ UNCHANGED cur
    /\ fetched' = <<>>
    /\ UNCHANGED <<sheetVars, twiceVars, args, sinks, csvFile, reported>>

\* garmin_client.get_metrics(current_date): one record for that date.
GetMetrics(d) == {m \in GarminMetrics : m.date = d}

\* FetchOne with the exception of get_metrics logged and the date skipped.
FetchOne_SkipFailed ==
    /\ pc = "fetch"
    /\ cur <= args.end_date
    /\ \/ \E m \in GetMetrics(cur) :
            /\ fetched' = Append(fetched, m)
            /\ cur' = cur + 1
            /\ UNCHANGED <<pc, exitCode, ended>>
       \/ cur' = cur + 1 /\ UNCHANGED <<fetched, pc, exitCode, ended>>
    /\ UNCHANGED <<sheetVars, twiceVars, args, authLog, sinks, csvFile, reported>>

\* One round of the fetch loop; an exception of get_metrics (or an interrupt)
\* leaves sync at once.
FetchOne ==
    /\ pc = "fetch"
    /\ cur <= args.end_date
    /\ \/ \E m \in GetMetrics(cur) :
            /\ fetched' = Append(fetched, m)
            /\ cur' = cur + 1
            /\ UNCHANGED <<pc, exitCode, ended>>
       \/ Exit(1, "fetch") /\ UNCHANGED <<fetched, cur>>
    /\ UNCHANGED <<sheetVars, twiceVars, args, authLog, sinks, csvFile, reported>>

LoopDone == pc = "fetch" /\ cur > args.end_date

\* "No metrics fetched. Nothing to write.": sync returns.
NothingFetched ==
    /\ LoopDone
    /\ fetched = <<>>
    /\ Exit(0, "no metrics")
    /\ UNCHANGED <<sheetVars, twiceVars, args, authLog, cur, fetched, sinks, csvFile, reported>>

\* The 'sheets' branch: the client is built and update_metrics called; any
\* exception ends the process with 1, a return logs the success.
SinkSheets ==
    /\ LoopDone
    /\ fetched # <<>>
    /\ args.output_type = "sheets"
    /\ sinks' = Append(sinks, [sink |-> "sheets", records |-> fetched])
    /\ \E credentialsLoad \in BOOLEAN, fail \in Failures :
        IF ~credentialsLoad
        THEN /\ Exit(1, "sink error")
             /\ UNCHANGED <<sheetVars, reported>>
        ELSE /\ UpdateMetrics(fetched, fail)
             /\ IF outcome' = "raised"
                THEN Exit(1, "sink error") /\ UNCHANGED reported
                ELSE Exit(0, "done") /\ reported' = "sheets"
    /\ UNCHANGED <<twiceVars, args, authLog, cur, fetched, csvFile>>

\* One CSV row: getattr of every header's field, as csv.writer prints it.
CsvValue(value) == IF value.t = "none" THEN Str("") ELSE value
CsvRow(metric) == [a |-> isoformat(metric.date), v |-> CsvValue(metric.sleep_score)]

\* SinkCsv writing the header on every run, whatever the file holds.
SinkCsv_HeaderAlways ==
    /\ LoopDone
    /\ fetched # <<>>
    /\ args.output_type = "csv"
    /\ sinks' = Append(sinks, [sink |-> "csv", records |-> fetched])
    /\ csvFile' = csvFile \o <<HEADERS>> \o [i \in 1..Len(fetched) |-> CsvRow(fetched[i])]
    /\ reported' = "csv"
    /\ Exit(0, "done")
    /\ UNCHANGED <<sheetVars, twiceVars, args, authLog, cur, fetched>>

\* The 'csv' branch: the file is opened for appending, the header written when
\* the file is empty, then one row per record.
SinkCsv ==
    /\ LoopDone
    /\ fetched # <<>>
    /\ args.output_type = "csv"
    /\ sinks' = Append(sinks, [sink |-> "csv", records |-> fetched])
    /\ csvFile' = (IF Len(csvFile) = 0 THEN <<HEADERS>> ELSE csvFile)
                    \o [i \in 1..Len(fetched) |-> CsvRow(fetched[i])]
    /\ reported' = "csv"
    /\ Exit(0, "done")
    /\ UNCHANGED <<sheetVars, twiceVars, args, authLog, cur, fetched>>

\* Neither 'sheets' nor 'csv': sync falls off its end.
NoSink ==
    /\ LoopDone
    /\ fetched # <<>>
    /\ args.output_type \notin {"sheets", "csv"}
    /\ Exit(0, "no sink")
    /\ UNCHANGED <<sheetVars, twiceVars, args, authLog, cur, fetched, sinks, csvFile, reported>>

NextSync ==
    CliSync \/ Authenticate \/ FetchOne \/ NothingFetched \/ SinkSheets \/ SinkCsv \/ NoSink

SpecSync == Init /\ [][NextSync]_vars

\* ------------------------------------------------------------------ csv runs
\* Process after process writing to one CSV file: here sinks and csvFile
\* outlive a process, everything else of it is gone when the next one starts.
InitCsv == Init /\ ~tabExists

\* main(): a new process starts after the last one has ended.
NextRun ==
    /\ pc = "exited"
    /\ Len(csvFile) < MaxCsvRows
    /\ pc' = "start"
    /\ args' = NoArgs
    /\ authLog' = <<>>
    /\ cur' = 0
    /\ fetched' = <<>>
    /\ exitCode' = -1
    /\ reported' = ""
    /\ ended' = ""
    /\ UNCHANGED <<sheetVars, twiceVars, sinks, csvFile>>

NextCsv ==
    CliSync \/ Authenticate \/ FetchOne \/ NothingFetched \/ SinkCsv \/ NoSink \/ NextRun

SpecCsv == InitCsv /\ [][NextCsv]_vars

\* ------------------------------------------------------------------ claims
\* Reading the trace of the last invocation.
Issued(op) == \E k \in 1..Len(calls) : calls[k].op = op
CallData(op) ==
    IF Issued(op) THEN calls[CHOOSE k \in 1..Len(calls) : calls[k].op = op].data ELSE <<>>
Completed == outcome = "returned" /\ failed = ""
HasRow(sh, metric) == RowsOf(sh, MetricDateStr(metric)) # {}
Matched == SelectSeq(metrics, LAMBDA m : HasRow(before, m))
Unmatched == SelectSeq(metrics, LAMBDA m : ~HasRow(before, m))
\* The rows of the tab once _setup_sheet is through: an empty tab gains row 1.
RowsAfterSetup == IF Len(before) = 0 THEN 1 ELSE Len(before)

\* C1: starting with at most one row per date string, and every record list
\* having pairwise distinct dates, the sheet keeps at most one row per date
\* string of column A after any sequence of update_metrics invocations.
C1_AtMostOneRowPerDate == clean => AtMostOneRowPerDate(sheet)

\* C1 witness: a clean history in which an invocation both reused an existing
\* date row and added a new one.
C1_Witness ==
    /\ clean /\ Completed
    /\ Len(Matched) > 0 /\ Len(Unmatched) > 0
    /\ Len(sheet) = RowsAfterSetup + Len(Unmatched)

\* C2: a second invocation with the same record list, right after the first,
\* leaves the sheet exactly as the first left it.
C2_Idempotent == run = 2 => (sheet = once /\ tabExists)

\* C2 witness: the second invocation ran and rewrote rows the first one added.
C2_Witness ==
    /\ run = 2
    /\ Len(metrics) > 1
    /\ Len(CallData("values.batchUpdate")) = Len(metrics)
    /\ \E i \in 1..Len(once) : once[i].a \in DateStrs

\* C3: a record whose date string has a row is queued as an update of that row
\* and not as an append; a record whose date string has none is queued as one
\* appended row and no update.  A completed invocation grows the sheet by the
\* appended rows only, keeps the rows of every date where they were, and leaves
\* in the updated row the serialized values of the (last) record of that date.
C3_UpdateInPlaceElseAppend ==
    Completed =>
        LET ups == CallData("values.batchUpdate")
            apps == CallData("values.append")
        IN  /\ Len(ups) = Len(Matched)
            /\ \A k \in 1..Len(ups) :
                /\ ups[k].values = RowData(Matched[k])
                /\ ups[k].row \in RowsOf(before, MetricDateStr(Matched[k]))
                /\ (\A j \in (k + 1)..Len(ups) : ups[j].row # ups[k].row)
                    => sheet[ups[k].row] = RowData(Matched[k])
            /\ Len(apps) = Len(Unmatched)
            /\ \A k \in 1..Len(apps) : apps[k].values = RowData(Unmatched[k])
            /\ Len(sheet) = RowsAfterSetup + Len(Unmatched)
            /\ \A k \in 1..Len(Matched) :
                RowsOf(sheet, MetricDateStr(Matched[k]))
                    = RowsOf(before, MetricDateStr(Matched[k]))

\* C3 witness: one invocation with a matched record whose row changed content
\* and an unmatched record that was appended.
C3_Witness ==
    /\ Completed
    /\ Len(Unmatched) > 0
    /\ \E k \in 1..Len(Matched) :
        \E i \in RowsOf(before, MetricDateStr(Matched[k])) :
            sheet[i] = RowData(Matched[k]) /\ before[i] # sheet[i]

\* C4: from an empty tab, or none, a completed invocation with pairwise distinct
\* dates leaves the header row followed by one row per record, in list order.
C4_EmptySheetFilledInOrder ==
    (Completed /\ before = <<>> /\ DistinctDates(metrics)) =>
        sheet = <<HEADERS>> \o [i \in 1..Len(metrics) |-> RowData(metrics[i])]

\* C4 witness: the tab did not exist and two records were written to it.
C4_Witness ==
    Completed /\ ~beforeTab /\ before = <<>> /\ Len(metrics) = 2 /\ DistinctDates(metrics)

\* C5 (as claimed): a date string that occurs in several rows is updated in its
\* first, topmost row.
C5_FirstOccurrenceWins ==
    Completed =>
        \A k \in 1..Len(CallData("values.batchUpdate")) :
            LET u == CallData("values.batchUpdate")[k]
            IN  u.row = Min(RowsOf(before, u.values.a))

\* C5 (amended): a date string that occurs in several rows is updated in its
\* last, bottommost row, and the rows above it with that string stay as they were.
C5_LastOccurrenceWins ==
    Completed =>
        \A k \in 1..Len(CallData("values.batchUpdate")) :
            LET u == CallData("values.batchUpdate")[k]
            IN  /\ u.row = Max(RowsOf(before, u.values.a))
                /\ \A i \in RowsOf(before, u.values.a) \ {u.row} : sheet[i] = before[i]

\* C5 witness: an update went to a date string that two rows carried.
C5_Witness ==
    /\ Completed
    /\ \E k \in 1..Len(CallData("values.batchUpdate")) :
        Cardinality(RowsOf(before, CallData("values.batchUpdate")[k].values.a)) > 1

\* C6 (as claimed): when both batches are non-empty and the update call fails,
\* the append call is still issued.
C6_AppendIssuedAfterUpdateFailure ==
    (failed = "values.batchUpdate" /\ Len(Unmatched) > 0) => Issued("values.append")

\* C6 (amended): the update call goes first; when it fails the invocation
\* raises, no append is issued and no row is added; when the append call fails
\* the updates already written stay.
C6_UpdateFailureBlocksAppend ==
    /\ failed = "values.batchUpdate" =>
        /\ outcome = "raised"
        /\ ~Issued("values.append")
        /\ Len(sheet) = RowsAfterSetup
        /\ \A i \in 1..Len(before) : before[i].a # "" => sheet[i] = before[i]
    /\ failed = "values.append" =>
        /\ outcome = "raised"
        /\ Len(sheet) = RowsAfterSetup
        /\ \A k \in 1..Len(CallData("values.batchUpdate")) :
            sheet[CallData("values.batchUpdate")[k].row].a
                = CallData("values.batchUpdate")[k].values.a
        /\ \A k \in 1..Len(Matched) :
            (\A j \in (k + 1)..Len(Matched) : Matched[j].date # Matched[k].date)
                => \E i \in RowsOf(before, MetricDateStr(Matched[k])) :
                        sheet[i] = RowData(Matched[k])

\* C6 witness: both batches were non-empty and the update call failed.
C6_Witness ==
    failed = "values.batchUpdate" /\ Len(Matched) > 0 /\ Len(Unmatched) > 0

\* C10 (as claimed): every row that was there and whose column A is not the
\* date string of an input record is left as it was, and the header row is
\* written only into a tab that had no data at all.
C10_UnrelatedRowsUntouched ==
    outcome # "none" =>
        /\ \A i \in 1..Len(before) :
            (\A k \in 1..Len(metrics) : before[i].a # MetricDateStr(metrics[k]))
                => (i <= Len(sheet) /\ sheet[i] = before[i])
        /\ Issued("values.update A1") => before = <<>>

\* Reading the end of a run of sync.
LoopCompleted == pc = "exited" /\ cur > args.end_date
CompleteList(ms) ==
    /\ Len(ms) = args.end_date - args.start_date + 1
    /\ \A i \in 1..Len(ms) : ms[i].date = args.start_date + i - 1

\* C7 (as claimed): a failed read of the spreadsheet metadata or of column A
\* ends update_metrics with no row update and no append, and the caller sees an
\* error, not a normal return.
C7_ReadFailureAbortsAndPropagates ==
    (pc = "exited" /\ failed \in {"spreadsheets.get", "values.get A:A"}) =>
        /\ ~Issued("values.batchUpdate")
        /\ ~Issued("values.append")
        /\ outcome = "raised"
        /\ exitCode # 0
        /\ reported = ""

\* C8 (as claimed): a run that ends on a missing profile or credentials, an
\* invalid date, an authentication failure or a failed sink call ends with a
\* nonzero exit code and reports no success.
C8_FailureExitsNonzero ==
    (pc = "exited"
        /\ (ended \in {"profile", "credentials", "date format", "auth", "sink error"}
            \/ failed # ""))
        => (exitCode # 0 /\ reported = "")

WriteCalls == {"addSheet", "values.update A1", "values.batchUpdate", "values.append"}
\* The tab as _setup_sheet leaves it: the header in row 1 when A1 was empty.
SheetAfterSetup ==
    IF Len(before) = 0 THEN <<HEADERS>>
    ELSE IF before[1].a = "" THEN [before EXCEPT ![1] = HEADERS]
    ELSE before

\* C11 (as claimed): when a write call of update_metrics fails, the invocation
\* is fatal and the sheet is left as it was before the invocation.
C11_WriteFailureLeavesSheetAsBefore ==
    failed \in WriteCalls =>
        /\ outcome = "raised"
        /\ exitCode # 0
        /\ sheet = before
        /\ tabExists = beforeTab

\* C11 (amended): when a write call of update_metrics fails, the invocation is
\* fatal (the exception leaves update_metrics, the process exits 1 and reports
\* no success), the failed call is the last one issued and no call is issued
\* twice; the writes made before it stay: the created tab, the header row, and
\* the row updates when the append fails.  The failed call itself writes nothing.
C11_WriteFailureKeepsEarlierWrites ==
    failed \in WriteCalls =>
        /\ outcome = "raised"
        /\ exitCode = 1
        /\ reported = ""
        /\ calls[Len(calls)].op = failed
        /\ \A i, j \in 1..Len(calls) : i # j => calls[i].op # calls[j].op
        /\ failed = "addSheet" => (~tabExists /\ sheet = before)
        /\ failed # "addSheet" => tabExists
        /\ failed = "values.update A1" => sheet = before
        /\ failed = "values.batchUpdate" => sheet = SheetAfterSetup
        /\ failed = "values.append" =>
            /\ Len(sheet) = RowsAfterSetup
            /\ Len(CallData("values.batchUpdate")) = Len(Matched)
            /\ \A i \in 1..Len(sheet) :
                LET hits == {k \in 1..Len(Matched) :
                                CallData("values.batchUpdate")[k].row = i}
                IN  IF hits = {} THEN sheet[i] = SheetAfterSetup[i]
                    ELSE sheet[i] = RowData(Matched[Max(hits)])

\* C11 witness: the row updates were written and the append call then failed.
C11_Witness ==
    /\ pc = "exited"
    /\ failed = "values.append"
    /\ Issued("values.batchUpdate")
    /\ sheet # before

\* C12 (as claimed): an invocation with nothing to update and nothing to append
\* issues no write call at all and leaves the remote state as it was.
C12_EmptyBatchesWriteNothing ==
    (outcome # "none" /\ metrics = <<>>) =>
        /\ \A k \in 1..Len(calls) : calls[k].op \notin WriteCalls
        /\ sheet = before
        /\ tabExists = beforeTab

\* C12 (amended): an invocation with nothing to update and nothing to append
\* issues no row-update call and no append call; its setup step still creates a
\* missing tab and writes the header row when A1 is empty, so it writes nothing
\* exactly when the tab exists and A1 is not empty, and then the sheet is as before.
C12_EmptyBatchesWriteNoRows ==
    (outcome # "none" /\ metrics = <<>>) =>
        /\ ~Issued("values.batchUpdate")
        /\ ~Issued("values.append")
        /\ Issued("addSheet") => ~beforeTab
        /\ Issued("values.update A1") => (Len(before) = 0 \/ before[1].a = "")
        /\ (beforeTab /\ Len(before) > 0 /\ before[1].a # "") =>
            /\ \A k \in 1..Len(calls) : calls[k].op \notin WriteCalls
            /\ sheet = before
        /\ (Completed /\ ~(beforeTab /\ Len(before) > 0 /\ before[1].a # "")) =>
            /\ \E k \in 1..Len(calls) : calls[k].op \in WriteCalls
            /\ sheet = SheetAfterSetup
            /\ tabExists

\* C12 witness: an empty record list was reconciled against a tab with a row 1.
C12_Witness ==
    /\ Completed /\ metrics = <<>>
    /\ beforeTab /\ Len(before) > 1 /\ before[1].a # ""
    /\ sheet = before

\* The CSV rows of every list handed to the file sink, run after run.
RECURSIVE AllCsvRows(_)
AllCsvRows(ss) ==
    IF Len(ss) = 0 THEN <<>>
    ELSE [i \in 1..Len(ss[1].records) |-> CsvRow(ss[1].records[i])] \o AllCsvRows(Tail(ss))

\* C13: after any sequence of CSV syncs to one file that began absent or empty,
\* the file is the header row, once and first, followed by one row per record
\* of every sync in the order of the syncs; nothing is deduplicated.  (A sync
\* that fetched no record does not touch the file.)
C13_CsvHeaderOnceThenEveryRow ==
    /\ csvFile = (IF Len(sinks) = 0 THEN <<>> ELSE <<HEADERS>> \o AllCsvRows(sinks))
    /\ Cardinality(RowsOf(csvFile, HEADERS.a)) <= 1

\* C13 witness: two syncs overlapped on a date, which now has two rows under
\* the one header.
C13_Witness ==
    /\ pc = "exited"
    /\ Len(sinks) = 2
    /\ csvFile[1] = HEADERS
    /\ \E str \in DateStrs : Cardinality(RowsOf(csvFile, str)) = 2

\* C14: sync tries the saved session first, the password login only when that
\* failed, and one MFA prompt only when the login asked for it; each step is
\* tried at most once.  A step that does not end in success and has no
\* successor (a login error, an MFA prompt that cannot be shown, a rejected
\* code) ends the process with exit code 1, and metrics are fetched only after
\* a step has succeeded.
C14_AuthOrder ==
    LET n == Len(authLog)
    IN  /\ n <= 3
        /\ n >= 1 => authLog[1].step = "resume"
        /\ n >= 2 => (authLog[2].step = "login" /\ authLog[1].result = "failed")
        /\ n >= 3 => (authLog[3].step = "mfa" /\ authLog[2].result = "mfa required")
        /\ (n >= 1 /\ authLog[n].result # "ok") =>
            /\ pc = "exited"
            /\ exitCode = 1
            /\ ended = "auth"
            /\ fetched = <<>>
            /\ sinks = <<>>
        /\ (pc = "fetch" \/ fetched # <<>>) => (n >= 1 /\ authLog[n].result = "ok")
        /\ (n = 0) => (pc \in {"start", "auth"} \/ ended \in {"profile", "credentials",
                                                               "date format"})

\* C14 witness: the saved session failed, the login asked for MFA, the
\* prompted code was accepted, and a record was fetched after that.
C14_Witness ==
    /\ Len(authLog) = 3
    /\ authLog[3] = AuthStep("mfa", "ok")
    /\ fetched # <<>>

====
